---- MODULE Spec2Model ----
(***************************************************************************)
(* Model of package rtb (jroimartin/rtb): the RealTimeBattle robot library. *)
(*                                                                         *)
(* Go strings are represented in two ways.  A string the code inspects     *)
(* (an input line that is trimmed and tokenized, a formatted message whose *)
(* suffix and length rawf tests) is a sequence of atoms: each atom is a    *)
(* non-empty TLA+ string, every tab and newline is an atom of its own, and *)
(* so is every space of a line that is tokenized.  A string the code only  *)
(* stores or compares (a token, a message field, an error text) is a TLA+  *)
(* string.  Flat turns the first form into the second.                     *)
(*                                                                         *)
(* float64 values are fixed-point integers in units of 10^-6.              *)
(***************************************************************************)
EXTENDS Integers, Sequences, FiniteSets, TLC

VARIABLES
    settings,      \* ListenSettings passed to Listen
    Debug,         \* package variable Debug
    stdinLines,    \* the lines bufio.Scanner will yield from os.Stdin
    readErr,       \* TRUE: the stream ends with a read error, FALSE: with EOF
    nread,         \* number of lines Scan has returned so far
    pcListen,      \* position of the caller inside Listen
    pcReader,      \* position of the stdinReader goroutine
    rdLine,        \* s.Text() held by the stdinReader goroutine
    cClosed,       \* the line channel c of stdinReader is closed
    pcParser,      \* position of the goroutine started by Listen
    line,          \* the line received by that goroutine
    pmsg,          \* the message it is about to send
    msgs,          \* buffer of the channel returned by Listen
    msgsClosed,    \* that channel is closed
    pcConsumer,    \* position of the consumer ranging over the channel
    got,           \* the messages the consumer has received
    stdout,        \* the writes made to os.Stdout, one entry per fmt.Print
    stdoutBroken,  \* TRUE: writes to os.Stdout fail
    lastCall,      \* the last command call and what it returned
    ncalls,        \* number of command calls made
    pIn,           \* argument of parseMessage
    pOut,          \* its result
    pPart,         \* a Part value
    pStr,          \* the result of its String method
    wq,            \* per thread, the lines its calls hand to fmt.Print
    wn,            \* per thread, the number of those calls that reached Write
    wrest,         \* per thread, what its Write in progress has still to write
    wactive        \* the threads inside Write on os.Stdout

listenVars == <<settings, stdinLines, readErr, nread, pcListen, pcReader,
                rdLine, cClosed, pcParser, line, pmsg, msgs, msgsClosed,
                pcConsumer, got>>
outVars == <<stdout, stdoutBroken, Debug>>
callVars == <<lastCall, ncalls>>
parseVars == <<pIn, pOut>>
partVars == <<pPart, pStr>>
writeVars == <<wq, wn, wrest, wactive>>
vars == <<listenVars, outVars, callVars, parseVars, partVars, writeVars>>

----------------------------------------------------------------------------
(* Strings *)

\* unicode.IsSpace, restricted to the white space the model's lines hold
Space == {" ", "\t", "\n"}

RECURSIVE Flat(_)
Flat(s) == IF s = <<>> THEN "" ELSE Head(s) \o Flat(Tail(s))

\* len(s): the number of bytes of s
RECURSIVE ByteLen(_)
ByteLen(s) == IF s = <<>> THEN 0 ELSE Len(Head(s)) + ByteLen(Tail(s))

\* strings.HasSuffix(s, "\n")
HasSuffixNL(s) == s # <<>> /\ s[Len(s)] = "\n"

\* strings.TrimSpace
RECURSIVE TrimLeft(_)
TrimLeft(s) ==
    IF s # <<>> /\ Head(s) \in Space THEN TrimLeft(Tail(s)) ELSE s

RECURSIVE TrimRight(_)
TrimRight(s) ==
    IF s # <<>> /\ s[Len(s)] \in Space
    THEN TrimRight(SubSeq(s, 1, Len(s) - 1))
    ELSE s

TrimSpace(s) == TrimRight(TrimLeft(s))

\* strings.Fields: the maximal runs of non-space characters, in order
RECURSIVE FieldsFrom(_, _, _)
FieldsFrom(s, cur, acc) ==
    IF s = <<>> THEN (IF cur = "" THEN acc ELSE Append(acc, cur))
    ELSE IF Head(s) \in Space
         THEN FieldsFrom(Tail(s), "", IF cur = "" THEN acc ELSE Append(acc, cur))
         ELSE FieldsFrom(Tail(s), cur \o Head(s), acc)

Fields(s) == FieldsFrom(s, "", <<>>)

\* strings.Join(fields, " ")
RECURSIVE Join(_)
Join(fields) ==
    IF fields = <<>> THEN ""
    ELSE IF Len(fields) = 1 THEN fields[1]
    ELSE fields[1] \o " " \o Join(Tail(fields))

\* fields[k:]
From(fields, k) == SubSeq(fields, k + 1, Len(fields))

\* %q of a token made of printable characters other than quote and backslash
QuoteTok(tok) == "\"" \o tok \o "\""

\* %q of a line: tab and newline are escaped
QuoteAtom(a) == IF a = "\t" THEN "\\t" ELSE IF a = "\n" THEN "\\n" ELSE a

Quote(s) == <<"\"">> \o [i \in 1..Len(s) |-> QuoteAtom(s[i])] \o <<"\"">>

----------------------------------------------------------------------------
(* strconv *)

\* strconv.ParseInt(tok, 10, 0) on the tokens the model uses
IntTok ==
    ("0" :> 0) @@ ("1" :> 1) @@ ("-1" :> -1) @@ ("2" :> 2) @@ ("3" :> 3) @@
    ("4" :> 4) @@ ("123" :> 123)

\* strconv.ParseFloat(tok, 64) on the tokens the model uses, in 10^-6
FloatTok ==
    ("0" :> 0) @@ ("1" :> 1000000) @@ ("-1" :> -1000000) @@ ("2" :> 2000000) @@
    ("3" :> 3000000) @@ ("4" :> 4000000) @@ ("123" :> 123000000) @@
    ("1.2" :> 1200000) @@ ("1.23" :> 1230000) @@ ("3.4" :> 3400000) @@
    ("4.5" :> 4500000) @@ ("5.6" :> 5600000)

NilErr == [nil |-> TRUE]
Err(text) == [nil |-> FALSE, text |-> text]

ParseInt(tok) ==
    IF tok \in DOMAIN IntTok
    THEN [v |-> IntTok[tok], err |-> NilErr]
    ELSE [v |-> 0,
          err |-> Err("strconv.ParseInt: parsing " \o QuoteTok(tok)
                      \o ": invalid syntax")]

ParseFloat(tok) ==
    IF tok \in DOMAIN FloatTok
    THEN [v |-> FloatTok[tok], err |-> NilErr]
    ELSE [v |-> 0,
          err |-> Err("strconv.ParseFloat: parsing " \o QuoteTok(tok)
                      \o ": invalid syntax")]

----------------------------------------------------------------------------
(* The decoder *)

NilMsg == [type |-> "nil"]
Ok(msg) == [msg |-> msg, err |-> NilErr]
Fail(text) == [msg |-> NilMsg, err |-> Err(text)]

ErrArity == "wrong number of arguments"
ErrEmpty == "empty string"
ErrUnknown == "unknown message"

\* fmt.Errorf("could not parse <what> %q: %v", tok, err)
CouldNotParse(what, tok, err) ==
    Fail("could not parse " \o what \o " " \o QuoteTok(tok) \o ": " \o err.text)

parseInitialize(fields) ==
    IF Len(fields) # 2 THEN Fail(ErrArity)
    ELSE Ok([type |-> "Initialize", First |-> (fields[2] = "1")])

parseYourName(fields) ==
    IF Len(fields) < 2 THEN Fail(ErrArity)
    ELSE Ok([type |-> "YourName", Name |-> Join(From(fields, 1))])

parseYourColour(fields) ==
    IF Len(fields) < 2 THEN Fail(ErrArity)
    ELSE Ok([type |-> "YourColour", Colour |-> Join(From(fields, 1))])

parseGameOption(fields) ==
    IF Len(fields) # 3 THEN Fail(ErrArity)
    ELSE LET option == ParseInt(fields[2])
             value == ParseFloat(fields[3])
         IN  IF ~option.err.nil
             THEN CouldNotParse("option", fields[2], option.err)
             ELSE IF ~value.err.nil
             THEN CouldNotParse("value", fields[3], value.err)
             ELSE Ok([type |-> "GameOption", Option |-> option.v,
                      Value |-> value.v])

parseGameStarts(fields) ==
    IF Len(fields) # 1 THEN Fail(ErrArity)
    ELSE Ok([type |-> "GameStarts"])

\* parseRadar returning the fields parsed so far along with the error
parseRadar_Partial(fields) ==
    IF Len(fields) # 4 THEN Fail(ErrArity)
    ELSE LET distance == ParseFloat(fields[2])
             object == ParseInt(fields[3])
             radarAngle == ParseFloat(fields[4])
         IN  IF ~distance.err.nil
             THEN CouldNotParse("distance", fields[2], distance.err)
             ELSE IF ~object.err.nil
             THEN [msg |-> [type |-> "Radar", Distance |-> distance.v,
                            Object |-> 0, RadarAngle |-> 0],
                   err |-> CouldNotParse("object type", fields[3],
                                         object.err).err]
             ELSE IF ~radarAngle.err.nil
             THEN [msg |-> [type |-> "Radar", Distance |-> distance.v,
                            Object |-> object.v, RadarAngle |-> 0],
                   err |-> CouldNotParse("angle", fields[4],
                                         radarAngle.err).err]
             ELSE Ok([type |-> "Radar", Distance |-> distance.v,
                      Object |-> object.v, RadarAngle |-> radarAngle.v])

parseRadar(fields) ==
    IF Len(fields) # 4 THEN Fail(ErrArity)
    ELSE LET distance == ParseFloat(fields[2])
             object == ParseInt(fields[3])
             radarAngle == ParseFloat(fields[4])
         IN  IF ~distance.err.nil
             THEN CouldNotParse("distance", fields[2], distance.err)
             ELSE IF ~object.err.nil
             THEN CouldNotParse("object type", fields[3], object.err)
             ELSE IF ~radarAngle.err.nil
             THEN CouldNotParse("angle", fields[4], radarAngle.err)
             ELSE Ok([type |-> "Radar", Distance |-> distance.v,
                      Object |-> object.v, RadarAngle |-> radarAngle.v])

parseInfo(fields) ==
    IF Len(fields) # 4 THEN Fail(ErrArity)
    ELSE LET time == ParseFloat(fields[2])
             speed == ParseFloat(fields[3])
             cannonAngle == ParseFloat(fields[4])
         IN  IF ~time.err.nil
             THEN CouldNotParse("time", fields[2], time.err)
             ELSE IF ~speed.err.nil
             THEN CouldNotParse("speed", fields[3], speed.err)
             ELSE IF ~cannonAngle.err.nil
             THEN CouldNotParse("cannon angle", fields[4], cannonAngle.err)
             ELSE Ok([type |-> "Info", Time |-> time.v, Speed |-> speed.v,
                      CannonAngle |-> cannonAngle.v])

parseCoordinates(fields) ==
    IF Len(fields) # 4 THEN Fail(ErrArity)
    ELSE LET x == ParseFloat(fields[2])
             y == ParseFloat(fields[3])
             angle == ParseFloat(fields[4])
         IN  IF ~x.err.nil
             THEN CouldNotParse("x", fields[2], x.err)
             ELSE IF ~y.err.nil
             THEN CouldNotParse("y", fields[3], y.err)
             ELSE IF ~angle.err.nil
             THEN CouldNotParse("angle", fields[4], angle.err)
             ELSE Ok([type |-> "Coordinates", X |-> x.v, Y |-> y.v,
                      Angle |-> angle.v])

parseRobotInfo(fields) ==
    IF Len(fields) # 3 THEN Fail(ErrArity)
    ELSE LET energyLevel == ParseFloat(fields[2])
         IN  IF ~energyLevel.err.nil
             THEN CouldNotParse("energy level", fields[2], energyLevel.err)
             ELSE Ok([type |-> "RobotInfo", EnergyLevel |-> energyLevel.v,
                      TeamMate |-> (fields[3] = "1")])

parseRotationReached(fields) ==
    IF Len(fields) # 2 THEN Fail(ErrArity)
    ELSE LET part == ParseInt(fields[2])
         IN  IF ~part.err.nil
             THEN CouldNotParse("robot part", fields[2], part.err)
             ELSE Ok([type |-> "RotationReached", Part |-> part.v])

\* parseEnergy parsing its field before it counts the tokens
parseEnergy_ParseFirst(fields) ==
    IF Len(fields) >= 2 /\ ~ParseFloat(fields[2]).err.nil
    THEN CouldNotParse("energy level", fields[2], ParseFloat(fields[2]).err)
    ELSE IF Len(fields) # 2 THEN Fail(ErrArity)
    ELSE Ok([type |-> "Energy", EnergyLevel |-> ParseFloat(fields[2]).v])

parseEnergy(fields) ==
    IF Len(fields) # 2 THEN Fail(ErrArity)
    ELSE LET energyLevel == ParseFloat(fields[2])
         IN  IF ~energyLevel.err.nil
             THEN CouldNotParse("energy level", fields[2], energyLevel.err)
             ELSE Ok([type |-> "Energy", EnergyLevel |-> energyLevel.v])

parseRobotsLeft(fields) ==
    IF Len(fields) # 2 THEN Fail(ErrArity)
    ELSE LET numRobots == ParseInt(fields[2])
         IN  IF ~numRobots.err.nil
             THEN CouldNotParse("number of robots", fields[2], numRobots.err)
             ELSE Ok([type |-> "RobotsLeft", NumRobots |-> numRobots.v])

parseCollision(fields) ==
    IF Len(fields) # 3 THEN Fail(ErrArity)
    ELSE LET object == ParseInt(fields[2])
             angle == ParseFloat(fields[3])
         IN  IF ~object.err.nil
             THEN CouldNotParse("object type", fields[2], object.err)
             ELSE IF ~angle.err.nil
             THEN CouldNotParse("angle", fields[3], angle.err)
             ELSE Ok([type |-> "Collision", Object |-> object.v,
                      Angle |-> angle.v])

\* parseWarning joining the tokens from the warning type on
parseWarning_KeepsKind(fields) ==
    IF Len(fields) < 2 THEN Fail(ErrArity)
    ELSE LET warning == ParseInt(fields[2])
             warnMsg == IF Len(fields) > 2 THEN Join(From(fields, 1)) ELSE ""
         IN  IF ~warning.err.nil
             THEN CouldNotParse("warning type", fields[2], warning.err)
             ELSE Ok([type |-> "Warning", Warning |-> warning.v,
                      Message |-> warnMsg])

parseWarning(fields) ==
    IF Len(fields) < 2 THEN Fail(ErrArity)
    ELSE LET warning == ParseInt(fields[2])
             warnMsg == IF Len(fields) > 2 THEN Join(From(fields, 2)) ELSE ""
         IN  IF ~warning.err.nil
             THEN CouldNotParse("warning type", fields[2], warning.err)
             ELSE Ok([type |-> "Warning", Warning |-> warning.v,
                      Message |-> warnMsg])

parseDead(fields) ==
    IF Len(fields) # 1 THEN Fail(ErrArity)
    ELSE Ok([type |-> "Dead"])

parseGameFinishes(fields) ==
    IF Len(fields) # 1 THEN Fail(ErrArity)
    ELSE Ok([type |-> "GameFinishes"])

parseExitRobot(fields) ==
    IF Len(fields) # 1 THEN Fail(ErrArity)
    ELSE Ok([type |-> "ExitRobot"])

\* the keys of the map parsers
ParserNames ==
    {"Initialize", "YourName", "YourColour", "GameOption", "GameStarts",
     "Radar", "Info", "Coordinates", "RobotInfo", "RotationReached", "Energy",
     "RobotsLeft", "Collision", "Warning", "Dead", "GameFinishes", "ExitRobot"}

\* parsers[name](fields)
parsers(name, fields) ==
    CASE name = "Initialize" -> parseInitialize(fields)
      [] name = "YourName" -> parseYourName(fields)
      [] name = "YourColour" -> parseYourColour(fields)
      [] name = "GameOption" -> parseGameOption(fields)
      [] name = "GameStarts" -> parseGameStarts(fields)
      [] name = "Radar" -> parseRadar(fields)
      [] name = "Info" -> parseInfo(fields)
      [] name = "Coordinates" -> parseCoordinates(fields)
      [] name = "RobotInfo" -> parseRobotInfo(fields)
      [] name = "RotationReached" -> parseRotationReached(fields)
      [] name = "Energy" -> parseEnergy(fields)
      [] name = "RobotsLeft" -> parseRobotsLeft(fields)
      [] name = "Collision" -> parseCollision(fields)
      [] name = "Warning" -> parseWarning(fields)
      [] name = "Dead" -> parseDead(fields)
      [] name = "GameFinishes" -> parseGameFinishes(fields)
      [] name = "ExitRobot" -> parseExitRobot(fields)

\* parseMessage looking the name up without regard to case
parseMessage_FoldCase(s) ==
    LET t == TrimSpace(s)
        fields == Fields(t)
        name == IF fields[1] = "gamestarts" THEN "GameStarts" ELSE fields[1]
    IN  IF t = <<>> THEN Fail(ErrEmpty)
        ELSE IF name \notin ParserNames THEN Fail(ErrUnknown)
        ELSE parsers(name, fields)

parseMessage(s) ==
    LET t == TrimSpace(s)
        fields == Fields(t)
    IN  IF t = <<>> THEN Fail(ErrEmpty)
        ELSE IF fields[1] \notin ParserNames THEN Fail(ErrUnknown)
        ELSE parsers(fields[1], fields)

----------------------------------------------------------------------------
(* The encoder *)

\* the limit tested by rawf
MaxLineLen == 128

\* %d
FormatD(n) == ToString(n)

RECURSIVE Digits(_, _)
Digits(n, k) == IF k = 0 THEN "" ELSE Digits(n \div 10, k - 1) \o ToString(n % 10)

\* %f of a float64 held in units of 10^-6
FormatF(v) ==
    LET a == IF v < 0 THEN -v ELSE v
    IN  (IF v < 0 THEN "-" ELSE "") \o ToString(a \div 1000000) \o "."
        \o Digits(a % 1000000, 6)

\* rawf refusing a line of exactly MaxLineLen bytes
rawf_OffByOne(s) ==
    LET t == IF HasSuffixNL(s) THEN s ELSE Append(s, "\n")
    IN  IF ByteLen(t) >= MaxLineLen
        THEN [err |-> Err("message is too long (" \o ToString(ByteLen(t)) \o ")"),
              out |-> <<>>, s |-> s]
        ELSE [err |-> NilErr, out |-> <<t>>, s |-> s]

\* rawf printing the line before it tests its length
rawf_PrintBeforeCheck(s) ==
    LET t == IF HasSuffixNL(s) THEN s ELSE Append(s, "\n")
    IN  IF ByteLen(t) > MaxLineLen
        THEN [err |-> Err("message is too long (" \o ToString(ByteLen(t)) \o ")"),
              out |-> <<t>>, s |-> s]
        ELSE [err |-> NilErr, out |-> <<t>>, s |-> s]

\* rawf, s being fmt.Sprintf(format, a...): the error returned and the
\* strings handed to fmt.Print; s is kept for the properties
rawf(s) ==
    LET t == IF HasSuffixNL(s) THEN s ELSE Append(s, "\n")
    IN  IF ByteLen(t) > MaxLineLen
        THEN [err |-> Err("message is too long (" \o ToString(ByteLen(t)) \o ")"),
              out |-> <<>>, s |-> s]
        ELSE [err |-> NilErr, out |-> <<t>>, s |-> s]

\* fmt.Print on os.Stdout: the stream after the strings of out are written
fmtPrint(out) == IF stdoutBroken THEN stdout ELSE stdout \o out

rOptionSendRotationReached == 1
rOptionUseNonBlocking == 3

\* robotOption with its two arguments exchanged
robotOption_Swapped(option, value) ==
    rawf(<<"RobotOption", " ", FormatD(value), " ", FormatD(option)>>)

robotOption(option, value) ==
    rawf(<<"RobotOption", " ", FormatD(option), " ", FormatD(value)>>)

Name(name) == rawf(<<"Name", " ">> \o name)

Colour(homeColour, awayColour) ==
    rawf(<<"Colour", " ">> \o homeColour \o <<" ">> \o awayColour)

PartRobot == 1
PartCannon == 2
PartRadar == 4

\* p&bit != 0, bit being a power of two; Part is a two's complement integer
HasBit(p, bit) == (p \div bit) % 2 = 1

\* strings.Join(parts, "|")
RECURSIVE JoinBar(_)
JoinBar(parts) ==
    IF parts = <<>> THEN ""
    ELSE IF Len(parts) = 1 THEN parts[1]
    ELSE parts[1] \o "|" \o JoinBar(Tail(parts))

\* Part.String as a switch over the seven combinations of the three parts
PartString_Switch(p) ==
    LET parts == (IF p \in {1, 3, 5, 7} THEN <<"Robot">> ELSE <<>>)
                     \o (IF p \in {2, 3, 6, 7} THEN <<"Cannon">> ELSE <<>>)
                     \o (IF p \in {4, 5, 6, 7} THEN <<"Radar">> ELSE <<>>)
    IN  IF Len(parts) = 0 THEN "unknown" ELSE JoinBar(parts)

\* func (p Part) String() string
PartString(p) ==
    LET parts == (IF HasBit(p, PartRobot) THEN <<"Robot">> ELSE <<>>)
                     \o (IF HasBit(p, PartCannon) THEN <<"Cannon">> ELSE <<>>)
                     \o (IF HasBit(p, PartRadar) THEN <<"Radar">> ELSE <<>>)
    IN  IF Len(parts) = 0 THEN "unknown" ELSE JoinBar(parts)

\* Rotate formatting the part with %v, which calls Part.String
Rotate_ByName(what, v) ==
    rawf(<<"Rotate", " ", PartString(what), " ", FormatF(v)>>)

Rotate(what, v) == rawf(<<"Rotate", " ", FormatD(what), " ", FormatF(v)>>)

RotateTo(what, v, end) ==
    rawf(<<"RotateTo", " ", FormatD(what), " ", FormatF(v), " ", FormatF(end)>>)

RotateAmount(what, v, angle) ==
    rawf(<<"RotateAmount", " ", FormatD(what), " ", FormatF(v), " ",
           FormatF(angle)>>)

Sweep(what, v, rightAngle, leftAngle) ==
    rawf(<<"Sweep", " ", FormatD(what), " ", FormatF(v), " ",
           FormatF(rightAngle), " ", FormatF(leftAngle)>>)

Accelerate(value) == rawf(<<"Accelerate", " ", FormatF(value)>>)

Brake(portion) == rawf(<<"Break", " ", FormatF(portion)>>)

Shoot(energy) == rawf(<<"Shoot", " ", FormatF(energy)>>)

\* Printf, text being the expansion of format with its arguments
Printf(text) == rawf(<<"Print", " ">> \o text)

Debugf(text) == rawf(<<"Debug", " ">> \o text)

DebugLine(angle1, radius1, angle2, radius2) ==
    rawf(<<"DebugLine", " ", FormatF(angle1), " ", FormatF(radius1), " ",
           FormatF(angle2), " ", FormatF(radius2)>>)

DebugCircle(centerAngle, centerRadius, circleRadius) ==
    rawf(<<"DebugCircle", " ", FormatF(centerAngle), " ",
           FormatF(centerRadius), " ", FormatF(circleRadius)>>)

\* dbgf sending its message whatever Debug is
dbgf_Ungated(text) == Debugf(text)

dbgf(text) ==
    IF ~Debug THEN [err |-> NilErr, out |-> <<>>, s |-> <<>>] ELSE Debugf(text)

----------------------------------------------------------------------------
(* Listen and stdinReader *)

MaxLines == 3
MaxCap == 1

\* lines the server may send: two that decode, an empty one and one with a
\* malformed field
LineSet ==
    {<<"GameStarts">>,
     <<"YourName", " ", "foo", " ", "bar">>,
     <<>>,
     <<"\t", "Energy", " ", "foo">>}

\* the lines of the input of TestListen: the text starts with a newline and
\* ends with a newline and a tab
TestListenLines ==
    <<<<>>,
      <<"\t", "\t", "GameStarts">>,
      <<"\t", "\t", "YourName", " ", "foo", " ", "bar">>,
      <<"\t", "\t", "RobotInfo", " ", "1.23", " ", "0">>,
      <<"\t", "\t", "Warning", " ", "4", " ", "foo", " ", "bar">>,
      <<"\t">>>>

\* lines failing in each of the four ways (unknown name, wrong arity,
\* malformed field, empty) among lines that decode
MixedLines ==
    <<<<"Bogus">>,
      <<"GameStarts">>,
      <<"Energy">>,
      <<"Energy", " ", "foo">>,
      <<>>,
      <<"YourName", " ", "foo">>>>

\* the values of SendRotationReached: the default and the one of the
\* skeleton robot
RotationSettings == {0, 2}

SeqsUpTo(S, n) == UNION {[1..k -> S] : k \in 0..n}

\* s.Err() after a failed read
ErrRead == "read /dev/stdin: input/output error"

NoLine == <<"-">>

\* Listen: robotOption(rOptionUseNonBlocking, 0)
ListenBlocking ==
    /\ pcListen = "blocking"
    /\ stdout' = fmtPrint(robotOption(rOptionUseNonBlocking, 0).out)
    /\ pcListen' = "rotation"
    /\ UNCHANGED <<settings, stdinLines, readErr, nread, pcReader, rdLine,
                   cClosed, pcParser, line, pmsg, msgs, msgsClosed,
                   pcConsumer, got, stdoutBroken, Debug, callVars, parseVars, partVars, writeVars>>

\* Listen: robotOption(rOptionSendRotationReached, settings.SendRotationReached)
ListenRotation ==
    /\ pcListen = "rotation"
    /\ stdout' = fmtPrint(robotOption(rOptionSendRotationReached,
                                      settings.SendRotationReached).out)
    /\ pcListen' = "spawn"
    /\ UNCHANGED <<settings, stdinLines, readErr, nread, pcReader, rdLine,
                   cClosed, pcParser, line, pmsg, msgs, msgsClosed,
                   pcConsumer, got, stdoutBroken, Debug, callVars, parseVars, partVars, writeVars>>

\* Listen: stdinReader() and go func() start the two goroutines, the channel
\* is made and returned to the caller, who ranges over it
ListenSpawn ==
    /\ pcListen = "spawn"
    /\ pcListen' = "returned"
    /\ pcReader' = "scan"
    /\ pcParser' = "recv"
    /\ pcConsumer' = "recv"
    /\ msgs' = <<>>
    /\ UNCHANGED <<settings, stdinLines, readErr, nread, rdLine, cClosed,
                   line, pmsg, msgsClosed, got, outVars, callVars, parseVars, partVars, writeVars>>

\* stdinReader: s.Scan() returns a line, or fails at end of stream or on a
\* read error
ReaderScan ==
    /\ pcReader = "scan"
    /\ IF nread < Len(stdinLines)
       THEN /\ rdLine' = stdinLines[nread + 1]
            /\ nread' = nread + 1
            /\ pcReader' = "send"
       ELSE /\ pcReader' = IF readErr THEN "err" ELSE "close"
            /\ UNCHANGED <<rdLine, nread>>
    /\ UNCHANGED <<settings, stdinLines, readErr, pcListen, cClosed, pcParser,
                   line, pmsg, msgs, msgsClosed, pcConsumer, got, outVars,
                   callVars, parseVars, partVars, writeVars>>

\* c <- s.Text() meeting line, ok := <-stdin on the unbuffered channel
LineHandoff ==
    /\ pcReader = "send"
    /\ pcParser = "recv"
    /\ line' = rdLine
    /\ rdLine' = NoLine
    /\ pcReader' = "scan"
    /\ pcParser' = "parse"
    /\ UNCHANGED <<settings, stdinLines, readErr, nread, pcListen, cClosed,
                   pmsg, msgs, msgsClosed, pcConsumer, got, outVars, callVars,
                   parseVars, partVars, writeVars>>

\* stdinReader: s.Err() != nil, dbgf("error reading from stdin: %v", err)
ReaderErr ==
    /\ pcReader = "err"
    /\ stdout' = fmtPrint(dbgf(<<"error reading from stdin: ", ErrRead>>).out)
    /\ pcReader' = "close"
    /\ UNCHANGED <<settings, stdinLines, readErr, nread, pcListen, rdLine,
                   cClosed, pcParser, line, pmsg, msgs, msgsClosed,
                   pcConsumer, got, stdoutBroken, Debug, callVars, parseVars, partVars, writeVars>>

\* stdinReader: defer close(c)
ReaderClose ==
    /\ pcReader = "close"
    /\ cClosed' = TRUE
    /\ pcReader' = "done"
    /\ UNCHANGED <<settings, stdinLines, readErr, nread, pcListen, rdLine,
                   pcParser, line, pmsg, msgs, msgsClosed, pcConsumer, got,
                   outVars, callVars, parseVars, partVars, writeVars>>

\* the goroutine of Listen returning without closing msgs
ParserStdinClosed_NoClose ==
    /\ pcParser = "recv"
    /\ cClosed
    /\ stdout' = fmtPrint(dbgf(<<"stdin channel is closed">>).out)
    /\ pcParser' = "done"
    /\ UNCHANGED <<settings, stdinLines, readErr, nread, pcListen, pcReader,
                   rdLine, cClosed, line, pmsg, msgs, msgsClosed, pcConsumer,
                   got, stdoutBroken, Debug, callVars, parseVars, partVars, writeVars>>

\* Listen goroutine: line, ok := <-stdin with !ok,
\* dbgf("stdin channel is closed"), return
ParserStdinClosed ==
    /\ pcParser = "recv"
    /\ cClosed
    /\ stdout' = fmtPrint(dbgf(<<"stdin channel is closed">>).out)
    /\ pcParser' = "close"
    /\ UNCHANGED <<settings, stdinLines, readErr, nread, pcListen, pcReader,
                   rdLine, cClosed, line, pmsg, msgs, msgsClosed, pcConsumer,
                   got, stdoutBroken, Debug, callVars, parseVars, partVars, writeVars>>

\* the goroutine of Listen returning on a decode error instead of continuing
ParserParse_StopOnError ==
    /\ pcParser = "parse"
    /\ LET r == parseMessage(line)
       IN  IF ~r.err.nil
           THEN /\ stdout' = fmtPrint(dbgf(<<"error parsing message ">>
                                 \o Quote(line) \o <<": ", r.err.text>>).out)
                /\ pcParser' = "close"
                /\ line' = NoLine
                /\ UNCHANGED pmsg
           ELSE /\ pmsg' = r.msg
                /\ pcParser' = "send"
                /\ UNCHANGED <<stdout, line>>
    /\ UNCHANGED <<settings, stdinLines, readErr, nread, pcListen, pcReader,
                   rdLine, cClosed, msgs, msgsClosed, pcConsumer, got,
                   stdoutBroken, Debug, callVars, parseVars, partVars, writeVars>>

\* Listen goroutine: msg, err := parseMessage(line); on an error
\* dbgf("error parsing message %q: %v", line, err) and continue
ParserParse ==
    /\ pcParser = "parse"
    /\ LET r == parseMessage(line)
       IN  IF ~r.err.nil
           THEN /\ stdout' = fmtPrint(dbgf(<<"error parsing message ">>
                                 \o Quote(line) \o <<": ", r.err.text>>).out)
                /\ pcParser' = "recv"
                /\ line' = NoLine
                /\ UNCHANGED pmsg
           ELSE /\ pmsg' = r.msg
                /\ pcParser' = "send"
                /\ UNCHANGED <<stdout, line>>
    /\ UNCHANGED <<settings, stdinLines, readErr, nread, pcListen, pcReader,
                   rdLine, cClosed, msgs, msgsClosed, pcConsumer, got,
                   stdoutBroken, Debug, callVars, parseVars, partVars, writeVars>>

\* a send that gives up when the buffer is full (select with a default case)
MsgSend_DropWhenFull ==
    /\ pcParser = "send"
    /\ msgs' = IF Len(msgs) < settings.ChanBufferCapacity
               THEN Append(msgs, pmsg)
               ELSE msgs
    /\ pmsg' = NilMsg
    /\ line' = NoLine
    /\ pcParser' = "recv"
    /\ UNCHANGED <<settings, stdinLines, readErr, nread, pcListen, pcReader,
                   rdLine, cClosed, msgsClosed, pcConsumer, got, outVars,
                   callVars, parseVars, partVars, writeVars>>

\* a send into a buffer that ignores ChanBufferCapacity
MsgSend_Unbounded ==
    /\ pcParser = "send"
    /\ msgs' = Append(msgs, pmsg)
    /\ pmsg' = NilMsg
    /\ line' = NoLine
    /\ pcParser' = "recv"
    /\ UNCHANGED <<settings, stdinLines, readErr, nread, pcListen, pcReader,
                   rdLine, cClosed, msgsClosed, pcConsumer, got, outVars,
                   callVars, parseVars, partVars, writeVars>>

\* a send into a buffer one larger than ChanBufferCapacity
MsgSend_OneExtra ==
    /\ pcParser = "send"
    /\ Len(msgs) < settings.ChanBufferCapacity + 1
    /\ msgs' = Append(msgs, pmsg)
    /\ pmsg' = NilMsg
    /\ line' = NoLine
    /\ pcParser' = "recv"
    /\ UNCHANGED <<settings, stdinLines, readErr, nread, pcListen, pcReader,
                   rdLine, cClosed, msgsClosed, pcConsumer, got, outVars,
                   callVars, parseVars, partVars, writeVars>>

\* Listen goroutine: msgs <- msg when the buffer has room
MsgSend ==
    /\ pcParser = "send"
    /\ Len(msgs) < settings.ChanBufferCapacity
    /\ msgs' = Append(msgs, pmsg)
    /\ pmsg' = NilMsg
    /\ line' = NoLine
    /\ pcParser' = "recv"
    /\ UNCHANGED <<settings, stdinLines, readErr, nread, pcListen, pcReader,
                   rdLine, cClosed, msgsClosed, pcConsumer, got, outVars,
                   callVars, parseVars, partVars, writeVars>>

\* Listen goroutine: msgs <- msg handed to the receiving consumer when the
\* channel has no buffer
MsgHandoff ==
    /\ pcParser = "send"
    /\ settings.ChanBufferCapacity = 0
    /\ pcConsumer = "recv"
    /\ got' = Append(got, pmsg)
    /\ pmsg' = NilMsg
    /\ line' = NoLine
    /\ pcParser' = "recv"
    /\ UNCHANGED <<settings, stdinLines, readErr, nread, pcListen, pcReader,
                   rdLine, cClosed, msgs, msgsClosed, pcConsumer, outVars,
                   callVars, parseVars, partVars, writeVars>>

\* the goroutine of Listen closing msgs as soon as the consumer is gone
ParserClose_OnStop ==
    /\ pcParser = "close" \/ (pcParser = "send" /\ pcConsumer = "stopped")
    /\ msgsClosed' = TRUE
    /\ pcParser' = "done"
    /\ UNCHANGED <<settings, stdinLines, readErr, nread, pcListen, pcReader,
                   rdLine, cClosed, line, pmsg, msgs, pcConsumer, got, outVars,
                   callVars, parseVars, partVars, writeVars>>

\* Listen goroutine: defer close(msgs)
ParserClose ==
    /\ pcParser = "close"
    /\ msgsClosed' = TRUE
    /\ pcParser' = "done"
    /\ UNCHANGED <<settings, stdinLines, readErr, nread, pcListen, pcReader,
                   rdLine, cClosed, line, pmsg, msgs, pcConsumer, got, outVars,
                   callVars, parseVars, partVars, writeVars>>

\* consumer: for msg := range msgs receives a buffered message
ConsumerRecv ==
    /\ pcConsumer = "recv"
    /\ msgs # <<>>
    /\ got' = Append(got, Head(msgs))
    /\ msgs' = Tail(msgs)
    /\ UNCHANGED <<settings, stdinLines, readErr, nread, pcListen, pcReader,
                   rdLine, cClosed, pcParser, line, pmsg, msgsClosed,
                   pcConsumer, outVars, callVars, parseVars, partVars, writeVars>>

\* consumer: the range loop ends when the channel is closed and drained
ConsumerDone ==
    /\ pcConsumer = "recv"
    /\ msgsClosed
    /\ msgs = <<>>
    /\ pcConsumer' = "done"
    /\ UNCHANGED <<settings, stdinLines, readErr, nread, pcListen, pcReader,
                   rdLine, cClosed, pcParser, line, pmsg, msgs, msgsClosed,
                   got, outVars, callVars, parseVars, partVars, writeVars>>

\* consumer: leaves the loop early (break) and receives no more
ConsumerStop ==
    /\ pcConsumer = "recv"
    /\ pcConsumer' = "stopped"
    /\ UNCHANGED <<settings, stdinLines, readErr, nread, pcListen, pcReader,
                   rdLine, cClosed, pcParser, line, pmsg, msgs, msgsClosed,
                   got, outVars, callVars, parseVars, partVars, writeVars>>

NoCall == [fn |-> "none"]
NoResult == [msg |-> NilMsg, err |-> NilErr, done |-> FALSE]

CallIdle == lastCall = NoCall /\ ncalls = 0
ParseIdle == pIn = NoLine /\ pOut = NoResult

NoStr == "-"
PartIdle == pPart = 0 /\ pStr = NoStr

\* the threads that write to os.Stdout: the caller of Listen, who goes on as
\* the consumer, the goroutine of Listen and the goroutine of stdinReader
Writers == {"consumer", "listen", "reader"}

WriteIdle ==
    /\ wq = [w \in Writers |-> <<>>]
    /\ wn = [w \in Writers |-> 0]
    /\ wrest = [w \in Writers |-> <<>>]
    /\ wactive = {}

Init ==
    /\ settings \in [SendRotationReached : RotationSettings,
                     ChanBufferCapacity : 0..MaxCap]
    /\ Debug \in BOOLEAN
    /\ stdinLines \in SeqsUpTo(LineSet, MaxLines)
                         \cup {TestListenLines, MixedLines}
    /\ readErr \in BOOLEAN
    /\ nread = 0
    /\ pcListen = "blocking"
    /\ pcReader = "idle"
    /\ rdLine = NoLine
    /\ cClosed = FALSE
    /\ pcParser = "idle"
    /\ line = NoLine
    /\ pmsg = NilMsg
    /\ msgs = <<>>
    /\ msgsClosed = FALSE
    /\ pcConsumer = "idle"
    /\ got = <<>>
    /\ stdout = <<>>
    /\ stdoutBroken \in BOOLEAN
    /\ CallIdle
    /\ ParseIdle
    /\ PartIdle
    /\ WriteIdle

Next ==
    \/ ListenBlocking
    \/ ListenRotation
    \/ ListenSpawn
    \/ ReaderScan
    \/ LineHandoff
    \/ ReaderErr
    \/ ReaderClose
    \/ ParserStdinClosed
    \/ ParserParse
    \/ MsgSend
    \/ MsgHandoff
    \/ ParserClose
    \/ ConsumerRecv
    \/ ConsumerDone
    \/ ConsumerStop

Spec == Init /\ [][Next]_vars

\* the fairness of the Go scheduler: a goroutine that can run eventually
\* runs; the consumer is free to stop
Progress ==
    \/ ListenBlocking \/ ListenRotation \/ ListenSpawn
    \/ ReaderScan \/ LineHandoff \/ ReaderErr \/ ReaderClose
    \/ ParserStdinClosed \/ ParserParse \/ MsgSend \/ MsgHandoff
    \/ ParserClose \/ ConsumerRecv \/ ConsumerDone

MaxFairLines == 2

\* the inputs of the fair specification: a line that decodes and one that
\* does not, debug messages on
FairLineSet == {<<"GameStarts">>, <<>>}

FairInit ==
    /\ Init
    /\ stdinLines \in SeqsUpTo(FairLineSet, MaxFairLines)
    /\ settings.SendRotationReached = 0
    /\ ~stdoutBroken
    /\ Debug

FairSpec == FairInit /\ [][Next]_vars /\ WF_vars(Progress)

----------------------------------------------------------------------------
(* Calls of parseMessage *)

MaxArgs == 4

\* first tokens: the 17 message names and names that are none of them
NameTokens == ParserNames \cup {"Bogus", "gamestarts", "GameStart"}

\* tokens after the name: an integer, a float that is no integer, and text
ArgTokens == {"1", "1.2", "foo"}

\* the RobotInfo lines of TestParseMessage
RobotInfoLines ==
    {<<"RobotInfo", " ", "1.2", " ", "0">>,
     <<"RobotInfo", " ", "1.2", " ", "1">>,
     <<"RobotInfo", " ", "1.2", " ", "-1">>}

\* the tokens separated by single spaces
RECURSIVE LineOf(_)
LineOf(toks) ==
    IF Len(toks) <= 1 THEN toks
    ELSE <<toks[1], " ">> \o LineOf(Tail(toks))

\* the tokens separated by runs of spaces and tabs, with white space around
RECURSIVE PaddedFrom(_)
PaddedFrom(toks) ==
    IF toks = <<>> THEN <<" ">>
    ELSE <<" ", "\t", toks[1]>> \o PaddedFrom(Tail(toks))

TokenSeqs ==
    {<<n>> \o a : n \in NameTokens, a \in SeqsUpTo(ArgTokens, MaxArgs)}

ParseInputs ==
    {LineOf(toks) : toks \in TokenSeqs}
        \cup {PaddedFrom(toks) : toks \in TokenSeqs}
        \cup {<<>>, <<" ">>, <<"\t", " ">>}
        \cup RobotInfoLines
        \cup {TestListenLines[i] : i \in 1..Len(TestListenLines)}

ListenIdle ==
    /\ settings = [SendRotationReached |-> 0, ChanBufferCapacity |-> 0]
    /\ stdinLines = <<>>
    /\ readErr = FALSE
    /\ nread = 0
    /\ pcListen = "idle"
    /\ pcReader = "idle"
    /\ rdLine = NoLine
    /\ cClosed = FALSE
    /\ pcParser = "idle"
    /\ line = NoLine
    /\ pmsg = NilMsg
    /\ msgs = <<>>
    /\ msgsClosed = FALSE
    /\ pcConsumer = "idle"
    /\ got = <<>>

ParseInit ==
    /\ ListenIdle
    /\ CallIdle
    /\ PartIdle
    /\ WriteIdle
    /\ stdout = <<>>
    /\ stdoutBroken = FALSE
    /\ Debug = FALSE
    /\ pIn \in ParseInputs
    /\ pOut = NoResult

\* msg, err := parseMessage(pIn)
CallParseMessage ==
    /\ ~pOut.done
    /\ LET r == parseMessage(pIn)
       IN  pOut' = [msg |-> r.msg, err |-> r.err, done |-> TRUE]
    /\ UNCHANGED <<pIn, listenVars, outVars, callVars, partVars, writeVars>>

ParseNext == CallParseMessage

ParseSpec == ParseInit /\ [][ParseNext]_vars

----------------------------------------------------------------------------
(* Calls of the command functions *)

MaxCalls == 2
Under == 2
Over == 1

\* strings.Repeat("x", n)
RECURSIVE X(_)
X(n) ==
    IF n = 0 THEN ""
    ELSE LET h == X(n \div 2)
         IN  h \o h \o (IF n % 2 = 1 THEN "x" ELSE "")

\* lengths of text around the limit of rawf, and two short ones
Lengths == {0, 3} \cup ((MaxLineLen - Under)..(MaxLineLen + Over))

Text(n) == IF n = 0 THEN <<>> ELSE <<X(n)>>

\* text without a newline
Texts == {Text(n) : n \in Lengths}

\* text with and without a trailing newline
RawTexts == Texts \cup {Append(s, "\n") : s \in Texts}

Colours == {<<"11aa22">>, <<"bb33cc">>}
Parts == {1, 6}
Floats == {1230000, -4560000}

CmdInit ==
    /\ ListenIdle
    /\ ParseIdle
    /\ CallIdle
    /\ PartIdle
    /\ WriteIdle
    /\ stdout = <<>>
    /\ stdoutBroken \in BOOLEAN
    /\ Debug = FALSE

\* a call of the function fn with the arguments a that went through rawf
\* with result r: what it returned, what it handed to fmt.Print and whether
\* that write failed
Call(fn, a, r) ==
    /\ ncalls < MaxCalls
    /\ ncalls' = ncalls + 1
    /\ stdout' = fmtPrint(r.out)
    /\ lastCall' = [fn |-> fn, a |-> a, err |-> r.err, s |-> r.s, out |-> r.out,
                    writeFailed |-> (r.out # <<>> /\ stdoutBroken)]
    /\ UNCHANGED <<stdoutBroken, Debug, listenVars, parseVars, partVars, writeVars>>

CallRawf == \E s \in RawTexts : Call("rawf", <<s>>, rawf(s))

\* the two calls Listen makes
CallRobotOption ==
    \E ov \in {<<rOptionUseNonBlocking, 0>>, <<rOptionSendRotationReached, 2>>} :
        Call("robotOption", ov, robotOption(ov[1], ov[2]))

CallName == \E name \in Texts : Call("Name", <<name>>, Name(name))

CallColour ==
    \E homeColour \in Texts \cup Colours, awayColour \in Colours :
        Call("Colour", <<homeColour, awayColour>>,
             Colour(homeColour, awayColour))

CallRotate ==
    \E what \in Parts, v \in Floats :
        Call("Rotate", <<what, v>>, Rotate(what, v))

CallRotateTo ==
    \E what \in Parts, v \in Floats, end \in Floats :
        Call("RotateTo", <<what, v, end>>, RotateTo(what, v, end))

CallRotateAmount ==
    \E what \in Parts, v \in Floats, angle \in Floats :
        Call("RotateAmount", <<what, v, angle>>,
             RotateAmount(what, v, angle))

CallSweep ==
    \E what \in Parts, v \in Floats, rightAngle \in Floats, leftAngle \in Floats :
        Call("Sweep", <<what, v, rightAngle, leftAngle>>,
             Sweep(what, v, rightAngle, leftAngle))

CallAccelerate ==
    \E value \in Floats : Call("Accelerate", <<value>>, Accelerate(value))

CallBrake == \E portion \in Floats : Call("Brake", <<portion>>, Brake(portion))

CallShoot == \E energy \in Floats : Call("Shoot", <<energy>>, Shoot(energy))

CallPrintf == \E text \in Texts : Call("Printf", <<text>>, Printf(text))

CallDebugf == \E text \in Texts : Call("Debugf", <<text>>, Debugf(text))

CallDebugLine ==
    \E angle1 \in Floats, radius1 \in Floats, angle2 \in Floats,
       radius2 \in Floats :
        Call("DebugLine", <<angle1, radius1, angle2, radius2>>,
             DebugLine(angle1, radius1, angle2, radius2))

CallDebugCircle ==
    \E centerAngle \in Floats, centerRadius \in Floats, circleRadius \in Floats :
        Call("DebugCircle", <<centerAngle, centerRadius, circleRadius>>,
             DebugCircle(centerAngle, centerRadius, circleRadius))

CmdNext ==
    \/ CallRawf
    \/ CallRobotOption
    \/ CallName
    \/ CallColour
    \/ CallRotate
    \/ CallRotateTo
    \/ CallRotateAmount
    \/ CallSweep
    \/ CallAccelerate
    \/ CallBrake
    \/ CallShoot
    \/ CallPrintf
    \/ CallDebugf
    \/ CallDebugLine
    \/ CallDebugCircle

CmdSpec == CmdInit /\ [][CmdNext]_vars

----------------------------------------------------------------------------
(* Debug messages: the exported Debugf and the package's own dbgf *)

\* the bytes Debugf adds to its text: "Debug " and the newline
DebugOverhead == 7

\* the messages Listen and stdinReader hand to dbgf, and text that makes the
\* longest line rawf accepts and the shortest it refuses
DbgTexts ==
    {<<"stdin channel is closed">>,
     <<"error reading from stdin: ", ErrRead>>}
        \cup {<<"error parsing message ">> \o Quote(l)
                  \o <<": ", parseMessage(l).err.text>> :
                  l \in {l \in LineSet : ~parseMessage(l).err.nil}}
        \cup {Text(MaxLineLen - DebugOverhead),
              Text(MaxLineLen - DebugOverhead + 1)}

DbgInit ==
    /\ ListenIdle
    /\ ParseIdle
    /\ CallIdle
    /\ PartIdle
    /\ WriteIdle
    /\ stdout = <<>>
    /\ stdoutBroken \in BOOLEAN
    /\ Debug \in BOOLEAN

DbgDebugf == \E text \in DbgTexts : Call("Debugf", <<text>>, Debugf(text))

DbgDbgf == \E text \in DbgTexts : Call("dbgf", <<text>>, dbgf(text))

DbgNext ==
    \/ DbgDebugf
    \/ DbgDbgf

DbgSpec == DbgInit /\ [][DbgNext]_vars

----------------------------------------------------------------------------
(* Concurrent calls of rawf.  fmt.Print(s) is one call of os.Stdout.Write    *)
(* with the whole line.  Write holds the write lock of the file from its    *)
(* entry to its return and repeats the write system call until the line is  *)
(* written, each call accepting one or more of the units left.  Here stdout *)
(* holds the stream unit by unit, in the order the units were accepted.     *)

MaxWrites == 2

\* the calls of the skeleton robot on each Initialize: Name, then Colour
ConsumerLines ==
    {[i \in 1..k |-> IF i % 2 = 1
                     THEN Name(<<"skeleton">>).out[1]
                     ELSE Colour(<<"00ff00">>, <<"ff0000">>).out[1]] :
         k \in 0..MaxWrites}

\* the report of a line that does not decode, Debug being on
ParseReport ==
    Debugf(<<"error parsing message ">> \o Quote(<<>>)
               \o <<": ", parseMessage(<<>>).err.text>>).out[1]

ClosedReport == Debugf(<<"stdin channel is closed">>).out[1]

ReadReport == Debugf(<<"error reading from stdin: ", ErrRead>>).out[1]

\* the goroutine of Listen reports the lines that fail and then the end of
\* the stream
ListenReports ==
    {[i \in 1..k |-> IF i < k THEN ParseReport ELSE ClosedReport] :
         k \in 1..MaxWrites}

WriteInit ==
    /\ ListenIdle
    /\ ParseIdle
    /\ CallIdle
    /\ PartIdle
    /\ stdout = <<>>
    /\ stdoutBroken = FALSE
    /\ Debug = TRUE
    /\ wq \in [consumer : ConsumerLines,
                listen : ListenReports,
                reader : {<<>>, <<ReadReport>>}]
    /\ wn = [w \in Writers |-> 0]
    /\ wrest = [w \in Writers |-> <<>>]
    /\ wactive = {}

\* Write entered without waiting for the lock
WriteBegin_NoLock(w) ==
    /\ w \notin wactive
    /\ wn[w] < Len(wq[w])
    /\ wn' = [wn EXCEPT ![w] = @ + 1]
    /\ wrest' = [wrest EXCEPT ![w] = wq[w][wn[w] + 1]]
    /\ wactive' = wactive \cup {w}
    /\ UNCHANGED <<wq, listenVars, outVars, callVars, parseVars, partVars>>

\* rawf: fmt.Print(s) enters os.Stdout.Write, which takes the write lock
WriteBegin(w) ==
    /\ wactive = {}
    /\ wn[w] < Len(wq[w])
    /\ wn' = [wn EXCEPT ![w] = @ + 1]
    /\ wrest' = [wrest EXCEPT ![w] = wq[w][wn[w] + 1]]
    /\ wactive' = wactive \cup {w}
    /\ UNCHANGED <<wq, listenVars, outVars, callVars, parseVars, partVars>>

\* one write system call, accepting the first k units left
WriteSome(w) ==
    /\ w \in wactive
    /\ wrest[w] # <<>>
    /\ \E k \in 1..Len(wrest[w]) :
           /\ stdout' = stdout \o [i \in 1..k |-> <<wrest[w][i]>>]
           /\ wrest' = [wrest EXCEPT ![w] = SubSeq(@, k + 1, Len(@))]
    /\ UNCHANGED <<wq, wn, wactive, stdoutBroken, Debug, listenVars, callVars,
                   parseVars, partVars>>

\* Write returns and releases the lock
WriteEnd(w) ==
    /\ w \in wactive
    /\ wrest[w] = <<>>
    /\ wactive' = wactive \ {w}
    /\ UNCHANGED <<wq, wn, wrest, listenVars, outVars, callVars, parseVars,
                   partVars>>

WriteNext ==
    \E w \in Writers :
        \/ WriteBegin(w)
        \/ WriteSome(w)
        \/ WriteEnd(w)

WriteSpec == WriteInit /\ [][WriteNext]_vars

----------------------------------------------------------------------------
(* Part values: their String method and the commands that take a Part *)

MaxPart == 32

\* Part is an int: the values the three constants combine to, values with
\* higher bits and negative values
PartValues == (-MaxPart)..MaxPart

\* the float of TestRobotMessages
PartFloats == {1230000}

PartInit ==
    /\ ListenIdle
    /\ ParseIdle
    /\ CallIdle
    /\ WriteIdle
    /\ stdout = <<>>
    /\ stdoutBroken = FALSE
    /\ Debug = FALSE
    /\ pPart \in PartValues
    /\ pStr = NoStr

\* pStr := pPart.String()
CallPartString ==
    /\ pStr = NoStr
    /\ pStr' = PartString(pPart)
    /\ UNCHANGED <<pPart, listenVars, outVars, callVars, parseVars,
                   writeVars>>

PartRotate ==
    \E v \in PartFloats : Call("Rotate", <<pPart, v>>, Rotate(pPart, v))

PartRotateTo ==
    \E v \in PartFloats, end \in PartFloats :
        Call("RotateTo", <<pPart, v, end>>, RotateTo(pPart, v, end))

PartRotateAmount ==
    \E v \in PartFloats, angle \in PartFloats :
        Call("RotateAmount", <<pPart, v, angle>>,
             RotateAmount(pPart, v, angle))

PartSweep ==
    \E v \in PartFloats, rightAngle \in PartFloats, leftAngle \in PartFloats :
        Call("Sweep", <<pPart, v, rightAngle, leftAngle>>,
             Sweep(pPart, v, rightAngle, leftAngle))

PartNext ==
    \/ CallPartString
    \/ PartRotate
    \/ PartRotateTo
    \/ PartRotateAmount
    \/ PartSweep

PartSpec == PartInit /\ [][PartNext]_vars

----------------------------------------------------------------------------
(* Properties of Listen *)

IsPrefix(a, b) == Len(a) <= Len(b) /\ a = SubSeq(b, 1, Len(a))

\* the lines of the inputs
InputLines ==
    LineSet \cup {TestListenLines[i] : i \in 1..Len(TestListenLines)}
            \cup {MixedLines[i] : i \in 1..Len(MixedLines)}

\* the result of parseMessage for each of them
DecodeOf == [l \in InputLines |-> parseMessage(l)]

\* the messages of the lines that decode, in the order of the lines
RECURSIVE Decoded(_)
Decoded(lines) ==
    IF lines = <<>> THEN <<>>
    ELSE LET r == DecodeOf[Head(lines)]
         IN  (IF r.err.nil THEN <<r.msg>> ELSE <<>>) \o Decoded(Tail(lines))

LinesRead == SubSeq(stdinLines, 1, nread)

\* the messages TestListen wants
TestListenWant ==
    <<[type |-> "GameStarts"],
      [type |-> "YourName", Name |-> "foo bar"],
      [type |-> "RobotInfo", EnergyLevel |-> 1230000, TeamMate |-> FALSE],
      [type |-> "Warning", Warning |-> 4, Message |-> "foo bar"]>>

C2_DecodeFailuresSkipped ==
    /\ \A i \in 1..Len(got) : got[i] # NilMsg
    /\ \A i \in 1..Len(msgs) : msgs[i] # NilMsg
    /\ pcParser \in {"close", "done"} => (cClosed /\ nread = Len(stdinLines))
    /\ pcConsumer = "done" =>
           \A k \in 1..Len(stdinLines) :
               LET r == parseMessage(stdinLines[k])
                   n == Len(Decoded(SubSeq(stdinLines, 1, k)))
               IN  r.err.nil => (n <= Len(got) /\ got[n] = r.msg)

C2_Witness ==
    /\ pcConsumer = "done"
    /\ stdinLines = MixedLines
    /\ got = <<[type |-> "GameStarts"], [type |-> "YourName", Name |-> "foo"]>>

\* C3: when the stream ends, by end-of-stream or by a read error, and the
\* consumer keeps receiving, the channel is eventually closed; it is closed
\* only after every message decoded from the lines read has been sent on
\* it, and the consumer sees it closed only after receiving them all
C3_ClosedAfterDelivery ==
    /\ [](msgsClosed => (/\ nread = Len(stdinLines)
                         /\ pcReader = "done"
                         /\ got \o msgs = Decoded(stdinLines)))
    /\ [](pcConsumer = "done" => (msgsClosed /\ got = Decoded(stdinLines)))
    /\ <>(msgsClosed \/ pcConsumer = "stopped")

C3_Witness ==
    /\ msgsClosed
    /\ readErr
    /\ pcConsumer = "done"
    /\ Len(got) = 2

Count(s, x) == Cardinality({i \in 1..Len(s) : Flat(s[i]) = x})

\* C4: Listen writes "RobotOption 3 0" and then "RobotOption 1
\* <SendRotationReached>", each exactly once, before the first line is read
\* and before any message is delivered (the output stream accepting writes)
C4_BootstrapFirst ==
    /\ (nread > 0 \/ got # <<>> \/ msgs # <<>> \/ pcReader # "idle")
           => pcListen = "returned"
    /\ (pcListen \in {"spawn", "returned"} /\ ~stdoutBroken) =>
           LET second == "RobotOption 1 "
                             \o ToString(settings.SendRotationReached) \o "\n"
           IN  /\ Len(stdout) >= 2
               /\ Flat(stdout[1]) = "RobotOption 3 0\n"
               /\ Flat(stdout[2]) = second
               /\ Count(stdout, "RobotOption 3 0\n") = 1
               /\ Count(stdout, second) = 1

C4_Witness ==
    /\ ~stdoutBroken
    /\ settings.SendRotationReached = 2
    /\ nread > 0
    /\ Flat(stdout[2]) = "RobotOption 1 2\n"
    /\ got # <<>>

\* the goroutine of Listen is blocked on msgs <- msg
SendBlocked == pcParser = "send" /\ Len(msgs) = settings.ChanBufferCapacity

\* number of lines read that stdinReader still holds
Held == IF pcReader = "send" THEN 1 ELSE 0

\* C5 as stated: while the goroutine of Listen is blocked on the send and
\* the consumer does not receive, no further line is read
C5_NoReadWhileBlocked ==
    [][(SendBlocked /\ pcConsumer = "stopped" /\ SendBlocked')
           => nread' = nread]_vars

\* C5 as amended: the buffer never exceeds the capacity; while the goroutine
\* of Listen is blocked on the send it holds the last line read, or the one
\* before it when stdinReader has read one further line and holds it on its
\* unbuffered channel; no message is dropped: the messages received,
\* buffered and being sent are those of the lines read but the held one
C5_BackpressureOneAhead ==
    /\ Len(msgs) <= settings.ChanBufferCapacity
    /\ SendBlocked =>
           /\ nread - Held >= 1
           /\ line = stdinLines[nread - Held]
           /\ pcReader = "send" => rdLine = stdinLines[nread]
           /\ got \o msgs \o <<pmsg>>
                  = Decoded(SubSeq(stdinLines, 1, nread - Held))

C5_Witness ==
    /\ SendBlocked
    /\ pcConsumer = "stopped"
    /\ settings.ChanBufferCapacity = 1
    /\ pcReader = "send"
    /\ nread = 3
    /\ got = <<>>

\* the goroutine of Listen holds a line it has neither dropped nor sent
ParserHolds == IF line # NoLine THEN 1 ELSE 0

\* the lines the goroutine of Listen is done with
Processed == nread - Held - ParserHolds

\* those of them it dropped because they did not decode
Dropped ==
    Cardinality({i \in 1..Processed : ~DecodeOf[stdinLines[i]].err.nil})

\* the lines read, not delivered to the consumer and not dropped
InFlight == nread - Len(got) - Dropped

\* C19: the lines read from standard input and neither delivered to the
\* consumer nor dropped as decode failures are at every moment the buffered
\* messages, at most one line held by the goroutine of Listen and at most
\* one held by stdinReader on its unbuffered channel: at most
\* ChanBufferCapacity + 2
C19_BoundedInFlight ==
    /\ InFlight <= settings.ChanBufferCapacity + 2
    /\ InFlight = Len(msgs) + ParserHolds + Held
    /\ Len(msgs) <= settings.ChanBufferCapacity

C19_Witness ==
    /\ settings.ChanBufferCapacity = 1
    /\ InFlight = 3
    /\ Dropped = 1
    /\ pcConsumer = "recv"
    /\ got # <<>>

ChannelStep ==
    /\ cClosed' # cClosed =>
           (~cClosed /\ pcReader = "close" /\ pcReader' = "done"
               /\ pcParser' = pcParser /\ pcConsumer' = pcConsumer)
    /\ msgsClosed' # msgsClosed =>
           (~msgsClosed /\ pcParser = "close" /\ pcParser' = "done"
               /\ pcReader' = pcReader /\ pcConsumer' = pcConsumer)
    /\ (pcReader = "close" /\ pcReader' = "done") => ~cClosed
    /\ (pcParser = "close" /\ pcParser' = "done") => ~msgsClosed
    /\ (pcReader = "send" /\ pcReader' # "send") => ~cClosed
    /\ (pcParser = "send" /\ pcParser' # "send") => ~msgsClosed
    /\ (pcConsumer = "stopped" /\ SendBlocked) =>
           (SendBlocked' /\ ~msgsClosed' /\ pcConsumer' = "stopped")

----------------------------------------------------------------------------
(* Properties of the command functions *)

\* the byte length of the line of a formatted string, its newline included
LineBytes(s) == ByteLen(s) + (IF HasSuffixNL(s) THEN 0 ELSE 1)

\* C6: rawf succeeds exactly when the formatted line with its trailing
\* newline is at most 128 bytes, and then hands that line to the output: 127
\* characters before the newline give a 128-byte line, 128 characters an
\* error; every line written is at most 128 bytes and ends with a newline
C6_RawfLengthLimit ==
    /\ lastCall.fn # "none" =>
           /\ lastCall.err.nil <=> LineBytes(lastCall.s) <= 128
           /\ lastCall.err.nil =>
                  /\ Len(lastCall.out) = 1
                  /\ ByteLen(lastCall.out[1]) = LineBytes(lastCall.s)
    /\ (lastCall.fn = "rawf" /\ lastCall.s = <<X(127)>>) =>
           /\ lastCall.err.nil
           /\ lastCall.out = <<(<<X(127), "\n">>)>>
           /\ ByteLen(lastCall.out[1]) = 128
    /\ (lastCall.fn = "rawf" /\ lastCall.s = <<X(128)>>) => ~lastCall.err.nil
    /\ \A i \in 1..Len(stdout) :
           ByteLen(stdout[i]) <= 128 /\ HasSuffixNL(stdout[i])

C6_Witness ==
    /\ ncalls = 2
    /\ stdout = <<(<<X(127), "\n">>)>>
    /\ lastCall.fn = "rawf"
    /\ lastCall.s = <<X(128)>>
    /\ ~lastCall.err.nil

\* C7: a command call that fails because its line is too long leaves the
\* output stream unchanged and hands nothing to it, truncated or not
C7_FailedCallWritesNothing ==
    [][(ncalls' = ncalls + 1 /\ ~lastCall'.err.nil)
           => (stdout' = stdout /\ lastCall'.out = <<>>)]_vars

C7_Witness ==
    /\ lastCall.fn = "Name"
    /\ ~lastCall.err.nil
    /\ ~stdoutBroken
    /\ Len(stdout) = 1

\* C8: a command function whose write to the output stream fails returns a
\* non-nil error
C8_WriteFailureReturned ==
    (lastCall.fn # "none" /\ lastCall.writeFailed) => ~lastCall.err.nil

\* the name each function writes, by the protocol
WireName ==
    ("robotOption" :> "RobotOption") @@ ("Name" :> "Name")
        @@ ("Colour" :> "Colour") @@ ("Rotate" :> "Rotate")
        @@ ("RotateTo" :> "RotateTo") @@ ("RotateAmount" :> "RotateAmount")
        @@ ("Sweep" :> "Sweep") @@ ("Accelerate" :> "Accelerate")
        @@ ("Brake" :> "Brake") @@ ("Shoot" :> "Shoot") @@ ("Printf" :> "Print")
        @@ ("Debugf" :> "Debug") @@ ("DebugLine" :> "DebugLine")
        @@ ("DebugCircle" :> "DebugCircle")

\* the kinds of the arguments each function declares: d an integer or enum,
\* f a float, s text
ArgKinds ==
    ("robotOption" :> <<"d", "d">>) @@ ("Name" :> <<"s">>)
        @@ ("Colour" :> <<"s", "s">>) @@ ("Rotate" :> <<"d", "f">>)
        @@ ("RotateTo" :> <<"d", "f", "f">>)
        @@ ("RotateAmount" :> <<"d", "f", "f">>)
        @@ ("Sweep" :> <<"d", "f", "f", "f">>) @@ ("Accelerate" :> <<"f">>)
        @@ ("Brake" :> <<"f">>) @@ ("Shoot" :> <<"f">>) @@ ("Printf" :> <<"s">>)
        @@ ("Debugf" :> <<"s">>) @@ ("DebugLine" :> <<"f", "f", "f", "f">>)
        @@ ("DebugCircle" :> <<"f", "f", "f">>)

\* the decimal digits of an integer
RECURSIVE Dec(_)
Dec(n) ==
    IF n < 0 THEN "-" \o Dec(-n)
    ELSE IF n < 10 THEN <<"0", "1", "2", "3", "4", "5", "6", "7", "8", "9">>[n + 1]
    ELSE Dec(n \div 10) \o Dec(n % 10)

\* an argument as the protocol wants it written
Rendered(kind, x) ==
    CASE kind = "s" -> x
      [] kind = "d" -> <<Dec(x)>>
      [] kind = "f" -> <<FormatF(x)>>

\* each argument after a space, in the order of the declaration
RECURSIVE ArgsLine(_, _)
ArgsLine(kinds, a) ==
    IF kinds = <<>> THEN <<>>
    ELSE <<" ">> \o Rendered(Head(kinds), Head(a))
             \o ArgsLine(Tail(kinds), Tail(a))

\* C13: a command function that succeeds writes exactly one line: its wire
\* name (Brake writes "Brake"), then its arguments in the order of the
\* declaration, then a newline
C13_WireNames ==
    (lastCall.fn \in DOMAIN WireName /\ lastCall.err.nil) =>
        lastCall.out = <<(<<WireName[lastCall.fn]>>
                             \o ArgsLine(ArgKinds[lastCall.fn], lastCall.a)
                             \o <<"\n">>)>>

\* the functions that take a Part
PartFunctions == {"Rotate", "RotateTo", "RotateAmount", "Sweep"}

\* C14: Rotate, RotateTo, RotateAmount and Sweep write the Part as the
\* decimal digits of its integer value, never as the name its String method
\* gives, for every Part value; Rotate(PartCannon|PartRadar, 1.23) writes
\* "Rotate 6 1.230000"
C14_PartAsInteger ==
    (lastCall.fn \in PartFunctions /\ lastCall.err.nil) =>
        /\ Len(lastCall.out) = 1
        /\ lastCall.out[1][1] = lastCall.fn
        /\ lastCall.out[1][3] = Dec(lastCall.a[1])
        /\ Fields(lastCall.out[1])[2] = Dec(lastCall.a[1])
        /\ lastCall.out[1][3] # PartString(lastCall.a[1])
        /\ (lastCall.fn = "Rotate" /\ lastCall.a = <<6, 1230000>>) =>
               Flat(lastCall.out[1]) = "Rotate 6 1.230000\n"

C14_Witness ==
    /\ lastCall.fn = "Sweep"
    /\ lastCall.a[1] = 6
    /\ Flat(stdout[Len(stdout)]) = "Sweep 6 1.230000 1.230000 1.230000\n"
    /\ pStr = "Cannon|Radar"

\* the names of the parts by the low three bits of the value
LowBitsName ==
    <<"unknown", "Robot", "Cannon", "Robot|Cannon", "Radar", "Robot|Radar",
      "Cannon|Radar", "Robot|Cannon|Radar">>

\* C17: Part.String depends only on the low three bits of the value: it
\* gives the names of the set bits among Robot (1), Cannon (2) and Radar
\* (4), in that order and joined by "|", ignores the higher bits (15 gives
\* "Robot|Cannon|Radar") and gives "unknown" exactly when none of the three
\* bits is set (0 and 16 alike)
C17_PartStringLowBits ==
    pStr # NoStr =>
        /\ pStr = LowBitsName[(pPart % 8) + 1]
        /\ pStr = "unknown" <=> pPart % 8 = 0
        /\ pPart = 15 => pStr = "Robot|Cannon|Radar"
        /\ pPart \in {0, 16} => pStr = "unknown"

C17_Witness ==
    /\ pPart = 15
    /\ pStr = "Robot|Cannon|Radar"

\* a call of a debug-print function has just returned
DebugPrintCall(fns) == ncalls' = ncalls + 1 /\ lastCall'.fn \in fns

\* C15 as stated, debug-print being the command function Debugf and the
\* package's dbgf: with Debug off the call hands nothing to the output
\* stream and returns nil; with Debug on it hands it a "Debug ..." line
C15_DebugPrintGated ==
    [][DebugPrintCall({"Debugf", "dbgf"}) =>
           IF ~Debug
           THEN lastCall'.out = <<>> /\ stdout' = stdout /\ lastCall'.err.nil
           ELSE /\ Len(lastCall'.out) = 1
                /\ SubSeq(lastCall'.out[1], 1, 2) = <<"Debug", " ">>]_vars

\* what a call that is not gated does with its text: the line "Debug
\* <text>" when it is at most 128 bytes with its newline, else the error
\* and no output
Ungated(call) ==
    LET l == <<"Debug", " ">> \o call.a[1] \o <<"\n">>
    IN  IF ByteLen(l) <= 128
        THEN call.err.nil /\ call.out = <<l>>
        ELSE ~call.err.nil /\ call.out = <<>>

\* C15 as amended: the flag gates the package's own reports (dbgf) only:
\* with Debug off dbgf hands nothing to the output stream, leaves it
\* unchanged and returns nil; with Debug on it does what Debugf does;
\* Debugf is not gated: whatever Debug is, it writes the line "Debug
\* <text>", or returns the error of rawf when the line is over 128 bytes
C15_InternalDebugGated ==
    [][/\ DebugPrintCall({"dbgf"}) =>
              IF ~Debug
              THEN /\ lastCall'.out = <<>>
                   /\ stdout' = stdout
                   /\ lastCall'.err.nil
              ELSE Ungated(lastCall')
       /\ DebugPrintCall({"Debugf"}) => Ungated(lastCall')
       /\ DebugPrintCall({"Debugf", "dbgf"}) =>
              stdout' = IF stdoutBroken THEN stdout
                        ELSE stdout \o lastCall'.out]_vars

C15_Witness ==
    /\ ~Debug
    /\ ~stdoutBroken
    /\ ncalls = 2
    /\ lastCall.fn = "dbgf"
    /\ lastCall.a = <<(<<"stdin channel is closed">>)>>
    /\ lastCall.err.nil
    /\ Len(stdout) = 1
    /\ Flat(stdout[1]) = "Debug stdin channel is closed\n"

RECURSIVE Concat(_)
Concat(ss) == IF ss = <<>> THEN <<>> ELSE Head(ss) \o Concat(Tail(ss))

\* the output stream cut after each newline: its whole lines and what
\* follows the last newline
RECURSIVE CutLines(_, _, _)
CutLines(s, cur, acc) ==
    IF s = <<>> THEN [lines |-> acc, tail |-> cur]
    ELSE IF Head(s) = "\n"
         THEN CutLines(Tail(s), <<>>, Append(acc, Append(cur, "\n")))
         ELSE CutLines(Tail(s), Append(cur, Head(s)), acc)

Stream == CutLines(Concat(stdout), <<>>, <<>>)

\* the calls of thread w whose line is wholly written
Finished(w) == IF wrest[w] # <<>> THEN wn[w] - 1 ELSE wn[w]

\* the number of times l is among the lines of s
Times(s, l) == Cardinality({i \in 1..Len(s) : s[i] = l})

\* C16: with the consumer thread, the goroutine of Listen and the goroutine
\* of stdinReader writing concurrently, the output stream is at every moment
\* whole lines, each the line of one call and there as often as calls that
\* produced it have written, followed by nothing or by the part written so
\* far of the line of the one call that is inside Write
C16_WholeLines ==
    /\ \A i \in 1..Len(Stream.lines) :
           /\ \E w \in Writers : \E j \in 1..wn[w] : wq[w][j] = Stream.lines[i]
           /\ Times(Stream.lines, Stream.lines[i])
                  = Cardinality({<<w, j>> \in Writers \X (1..MaxWrites + 1) :
                                    /\ j <= Finished(w)
                                    /\ wq[w][j] = Stream.lines[i]})
    /\ Len(Stream.lines)
           = Finished("consumer") + Finished("listen") + Finished("reader")
    /\ Stream.tail # <<>> =>
           \E w \in wactive : Stream.tail \o wrest[w] = wq[w][wn[w]]

C16_Witness ==
    /\ wactive = {"consumer"}
    /\ wn = [consumer |-> 2, listen |-> 2, reader |-> 0]
    /\ wq["reader"] = <<ReadReport>>
    /\ Len(Stream.lines) = 3
    /\ Stream.lines[2] = ParseReport
    /\ Stream.tail = <<"Colour", " ", "00ff00">>

----------------------------------------------------------------------------
(* Properties of parseMessage *)

\* the tokens of the argument of parseMessage
InFields == Fields(pIn)

\* C9: a RobotInfo line of three tokens with a valid energy level succeeds
\* with TeamMate false for the token "0" and true for "1", and fails with
\* an error and a nil message for any other teammate token
C9_StrictTeamMate ==
    (/\ pOut.done
     /\ Len(InFields) = 3
     /\ InFields[1] = "RobotInfo"
     /\ InFields[2] \in {"0", "1", "-1", "1.2", "1.23"}) =>
        CASE InFields[3] = "0" ->
                 pOut.err.nil /\ pOut.msg.type = "RobotInfo" /\ ~pOut.msg.TeamMate
          [] InFields[3] = "1" ->
                 pOut.err.nil /\ pOut.msg.type = "RobotInfo" /\ pOut.msg.TeamMate
          [] OTHER -> ~pOut.err.nil /\ pOut.msg = NilMsg

\* the arity table: the exact number of tokens, the name included
ExactArity ==
    [n \in {"GameStarts", "Dead", "GameFinishes", "ExitRobot"} |-> 1]
        @@ [n \in {"Initialize", "RotationReached", "Energy", "RobotsLeft"} |-> 2]
        @@ [n \in {"GameOption", "RobotInfo", "Collision"} |-> 3]
        @@ [n \in {"Radar", "Info", "Coordinates"} |-> 4]

\* the names that take at least two tokens
MinArityTwo == {"YourName", "YourColour", "Warning"}

ArityViolated(fields) ==
    IF fields[1] \in MinArityTwo THEN Len(fields) < 2
    ELSE Len(fields) # ExactArity[fields[1]]

\* C10: for each of the 17 message names parseMessage fails with the arity
\* error, and a nil message, when the token count violates the arity table,
\* whatever the tokens are: the count is checked before any field is parsed;
\* with the right count the arity error is not returned
C10_ArityChecked ==
    (/\ pOut.done
     /\ InFields # <<>>
     /\ InFields[1] \in DOMAIN ExactArity \cup MinArityTwo) =>
        IF ArityViolated(InFields)
        THEN pOut.err = Err("wrong number of arguments") /\ pOut.msg = NilMsg
        ELSE pOut.err # Err("wrong number of arguments")

C10_Witness ==
    /\ pOut.done
    /\ InFields = <<"Radar", "foo", "foo", "1.2", "foo">>
    /\ pIn # LineOf(InFields)
    /\ pOut.err = Err("wrong number of arguments")

\* the positions of a line that hold no white space
Inked(s) == {i \in 1..Len(s) : s[i] \notin {" ", "\t", "\n"}}

Min(S) == CHOOSE x \in S : \A y \in S : x <= y

\* the 17 message names of the protocol
Vocabulary ==
    {"Initialize", "YourName", "YourColour", "GameOption", "GameStarts",
     "Radar", "Info", "Coordinates", "RobotInfo", "RotationReached", "Energy",
     "RobotsLeft", "Collision", "Warning", "Dead", "GameFinishes", "ExitRobot"}

\* C11: parseMessage fails with the error "empty string", and a nil
\* message, for a line that is empty or all white space; it fails with the
\* error "unknown message" for every line whose first token is not exactly
\* one of the 17 names, whatever tokens follow; and with neither of the two
\* errors for a line whose first token is one of the names
C11_EmptyAndUnknown ==
    pOut.done =>
        IF Inked(pIn) = {}
        THEN pOut.err = Err("empty string") /\ pOut.msg = NilMsg
        ELSE IF pIn[Min(Inked(pIn))] \notin Vocabulary
        THEN pOut.err = Err("unknown message") /\ pOut.msg = NilMsg
        ELSE pOut.err \notin {Err("empty string"), Err("unknown message")}

C11_Witness ==
    /\ pOut.done
    /\ InFields = <<"gamestarts", "1", "foo">>
    /\ pIn # LineOf(InFields)
    /\ pOut.err = Err("unknown message")

\* the positions of the tokens parsed as integers, the name being token 1
IntAt(name) ==
    CASE name \in {"GameOption", "RotationReached", "RobotsLeft", "Collision",
                   "Warning"} -> {2}
      [] name = "Radar" -> {3}
      [] OTHER -> {}

\* the positions of the tokens parsed as floats
FloatAt(name) ==
    CASE name \in {"Radar"} -> {2, 4}
      [] name \in {"Info", "Coordinates"} -> {2, 3, 4}
      [] name \in {"GameOption", "Collision"} -> {3}
      [] name \in {"RobotInfo", "Energy"} -> {2}
      [] OTHER -> {}

\* a numeric field of the line is malformed
Malformed(fields) ==
    \E i \in 2..Len(fields) :
        \/ i \in IntAt(fields[1]) /\ fields[i] \notin DOMAIN IntTok
        \/ i \in FloatAt(fields[1]) /\ fields[i] \notin DOMAIN FloatTok

\* C12: parseMessage returns either a message and a nil error or a nil
\* message and an error, never both and never neither; when a numeric field
\* of the line is malformed the message is nil, also when the fields before
\* it parsed
C12_NoPartialSuccess ==
    pOut.done =>
        /\ (pOut.msg = NilMsg) <=> ~pOut.err.nil
        /\ (InFields # <<>> /\ Malformed(InFields)) =>
               (pOut.msg = NilMsg /\ ~pOut.err.nil)

C12_Witness ==
    /\ pOut.done
    /\ InFields = <<"Radar", "1.2", "1", "foo">>
    /\ pOut.msg = NilMsg
    /\ ~pOut.err.nil

\* the tokens from position k on (the name being token 0), separated by
\* single spaces
Rejoined(fields, k) == Flat(LineOf(SubSeq(fields, k + 1, Len(fields))))

\* C18: the text of YourName and YourColour is the tokens after the name,
\* that of Warning the tokens after the warning type, in their order and
\* separated by single spaces whatever white space separated them in the
\* line; a Warning line with only its type succeeds with an empty message
C18_FreeTextRejoined ==
    (pOut.done /\ Len(InFields) >= 2) =>
        /\ InFields[1] = "YourName" =>
               /\ pOut.err.nil
               /\ pOut.msg = [type |-> "YourName", Name |-> Rejoined(InFields, 1)]
        /\ InFields[1] = "YourColour" =>
               /\ pOut.err.nil
               /\ pOut.msg = [type |-> "YourColour",
                              Colour |-> Rejoined(InFields, 1)]
        /\ (InFields[1] = "Warning" /\ InFields[2] = "1") =>
               /\ pOut.err.nil
               /\ pOut.msg = [type |-> "Warning", Warning |-> 1,
                              Message |-> Rejoined(InFields, 2)]
               /\ Len(InFields) = 2 => pOut.msg.Message = ""

C18_Witness ==
    /\ pOut.done
    /\ InFields = <<"Warning", "1", "foo", "1.2", "foo">>
    /\ pIn # LineOf(InFields)
    /\ pOut.msg.Message = "foo 1.2 foo"

====
